---- MODULE Spec2Model ----
(***************************************************************************)
(* FocusGuard: the content-classification and distraction-notification     *)
(* pipeline of focusguard-app/main.py (current revision) and of            *)
(* home/ubuntu/focusguard-app/main.py (earlier revision).                  *)
(*                                                                         *)
(* Strings are TLA+ strings; confidences are integers in hundredths        *)
(* (0.95 is 95); timestamps are integer seconds.                           *)
(***************************************************************************)
EXTENDS Integers, Sequences, FiniteSets, TLC

(***************************************************************************)
(* String helpers: str.lower(), str.strip(), "k in s", split(" - ").       *)
(***************************************************************************)
UpperToLower ==
  [c \in {"A","B","C","D","E","F","G","H","I","J","K","L","M","N","O","P","Q",
          "R","S","T","U","V","W","X","Y","Z"} |->
     CASE c = "A" -> "a" [] c = "B" -> "b" [] c = "C" -> "c" [] c = "D" -> "d"
       [] c = "E" -> "e" [] c = "F" -> "f" [] c = "G" -> "g" [] c = "H" -> "h"
       [] c = "I" -> "i" [] c = "J" -> "j" [] c = "K" -> "k" [] c = "L" -> "l"
       [] c = "M" -> "m" [] c = "N" -> "n" [] c = "O" -> "o" [] c = "P" -> "p"
       [] c = "Q" -> "q" [] c = "R" -> "r" [] c = "S" -> "s" [] c = "T" -> "t"
       [] c = "U" -> "u" [] c = "V" -> "v" [] c = "W" -> "w" [] c = "X" -> "x"
       [] c = "Y" -> "y" [] c = "Z" -> "z"]

LowerChar(c) == IF c \in DOMAIN UpperToLower THEN UpperToLower[c] ELSE c

\* (a string of more than 32 characters is lowered half by half, which keeps
\* the recursion shallow)
RECURSIVE Lower(_)
Lower(s) ==
  IF Len(s) = 0 THEN ""
  ELSE IF Len(s) > 32
  THEN Lower(SubSeq(s, 1, Len(s) \div 2)) \o Lower(SubSeq(s, (Len(s) \div 2) + 1, Len(s)))
  ELSE LowerChar(SubSeq(s, 1, 1)) \o Lower(SubSeq(s, 2, Len(s)))

RECURSIVE LStrip(_)
LStrip(s) ==
  IF Len(s) > 0 /\ SubSeq(s, 1, 1) = " " THEN LStrip(SubSeq(s, 2, Len(s))) ELSE s

RECURSIVE RStrip(_)
RStrip(s) ==
  IF Len(s) > 0 /\ SubSeq(s, Len(s), Len(s)) = " "
  THEN RStrip(SubSeq(s, 1, Len(s) - 1)) ELSE s

Strip(s) == RStrip(LStrip(s))

\* Python's  k in s
Contains(s, k) ==
  \E i \in 1..(Len(s) - Len(k) + 1) : SubSeq(s, i, i + Len(k) - 1) = k

\* any(k in s for k in ks)
ContainsAny(s, ks) == \E k \in ks : Contains(s, k)

\* position of the first " - " in s (0 when there is none)
FirstDash(s) ==
  IF Contains(s, " - ")
  THEN CHOOSE i \in 1..(Len(s) - 2) :
         /\ SubSeq(s, i, i + 2) = " - "
         /\ \A j \in 1..(i - 1) : SubSeq(s, j, j + 2) # " - "
  ELSE 0

\* " - ".join(title.split(" - ")[1:]) when " - " is in the title, else title
TabContent(title) ==
  IF FirstDash(title) = 0 THEN title
  ELSE SubSeq(title, FirstDash(title) + 3, Len(title))

(***************************************************************************)
(* AdvancedContentClassifier (focusguard-app/main.py)                      *)
(***************************************************************************)
DistractingCategories == {"entertainment", "social_media", "gaming", "streaming"}

\* keys of category_embeddings, the candidates of the similarity arg-max
EmbeddingCategories ==
  {"educational", "work", "entertainment", "social_media", "gaming", "streaming"}

entertainment_keywords ==
  {"youtube", "netflix", "spotify", "instagram", "facebook", "twitter", "tiktok",
   "reddit", "twitch", "discord", "snapchat", "pinterest", "tumblr", "vine",
   "game", "gaming", "play", "movie", "music", "video", "stream", "live",
   "entertainment", "fun", "funny", "meme", "joke", "comedy", "drama",
   "reality", "show", "series", "episode", "season", "trailer", "preview"}

educational_keywords ==
  {"course", "tutorial", "learn", "study", "education", "academic", "university",
   "college", "school", "lecture", "lesson", "assignment", "homework", "exam",
   "test", "quiz", "research", "paper", "thesis", "dissertation", "documentation",
   "guide", "manual", "book", "textbook", "reference", "library", "scholar",
   "programming", "coding", "development", "engineering", "technology", "computer",
   "science", "math", "physics", "chemistry", "biology", "history", "geography",
   "language", "grammar", "vocabulary", "writing", "reading", "analysis",
   "algorithm", "data structure", "database", "web development", "mobile app",
   "machine learning", "ai", "artificial intelligence", "neural network",
   "statistics", "calculus", "algebra", "geometry", "trigonometry"}

productive_keywords ==
  {"work", "project", "task", "job", "business", "office", "meeting", "presentation",
   "report", "analysis", "data", "code", "programming", "development", "design",
   "planning", "strategy", "management", "admin", "dashboard", "tool", "software"}

Result(cat, conf, dist) ==
  [category |-> cat, confidence |-> conf, is_distraction |-> dist, error |-> FALSE]

\* an exception leaving the function
Raised == [category |-> "", confidence |-> 0, is_distraction |-> FALSE, error |-> TRUE]

\* the chrome branch of _fallback_classify; "fallthrough" when no return is taken
ChromeBranch(title) ==
  LET title_lower == Lower(title)
      tab == Lower(TabContent(title))
  IN
  IF Contains(title_lower, "new tab") THEN Result("neutral", 90, FALSE)
  ELSE IF Contains(title_lower, "youtube") THEN
    IF ContainsAny(tab, {"educational", "tutorial", "course", "learn", "study", "lecture"})
      THEN Result("educational", 90, FALSE)
    ELSE IF ContainsAny(tab, {"music", "song", "movie", "game", "funny", "comedy",
                              "entertainment", "video", "official", "ft.", "feat"})
      THEN Result("entertainment", 80, TRUE)
    ELSE IF ContainsAny(tab, {"ft.", "feat", "official", "video", "song", "music",
                              "album", "track", "remix", "cover"})
      THEN Result("entertainment", 85, TRUE)
    ELSE IF ContainsAny(tab, {"full hd", "hd video", "movie", "film", "episode",
                              "season", "series"})
      THEN Result("entertainment", 85, TRUE)
    ELSE Result("streaming", 70, TRUE)
  ELSE IF ContainsAny(tab, {"movierulz", "movie", "film", "watch online", "full movie",
                            "hd video", "video song"})
    THEN Result("entertainment", 85, TRUE)
  ELSE IF ContainsAny(tab, {"bc.game", "casino", "gambling", "slot games",
                            "crypto casino", "game"})
    THEN Result("gaming", 90, TRUE)
  ELSE IF ContainsAny(tab, {"stack overflow", "github", "documentation", "tutorial"})
    THEN Result("educational", 90, FALSE)
  ELSE IF ContainsAny(tab, {"gmail", "google docs", "sheets", "slides"})
    THEN Result("work", 90, FALSE)
  ELSE IF ContainsAny(tab, {"focusguard", "focus guard", "development", "project", "app",
                            "application", "code", "programming", "software", "web app",
                            "react", "python", "javascript", "html", "css", "api",
                            "backend", "frontend", "database", "server", "git",
                            "terminal", "console", "debug", "test", "build", "deploy",
                            "config", "package.json", "requirements.txt", "docker",
                            "kubernetes", "aws", "azure"})
    THEN Result("work", 95, FALSE)
  ELSE IF ContainsAny(title_lower, {"focusguard", "focus guard", "productivity", "timer",
                                    "dashboard", "stats", "monitor", "track", "session",
                                    "plan", "goal", "task", "work", "study"})
    THEN Result("work", 90, FALSE)
  ELSE IF ContainsAny(title_lower, {"focusguard", "focus guard", "productivity tracker",
                                    "focus timer", "pomodoro", "time tracker",
                                    "task manager", "project manager", "notion", "trello",
                                    "asana", "jira", "confluence", "slack", "teams",
                                    "zoom", "meet", "webex"})
    THEN Result("work", 90, FALSE)
  ELSE IF Contains(title_lower, "focusguard") \/ Contains(title_lower, "focus guard")
    THEN Result("work", 95, FALSE)
  ELSE IF ContainsAny(title_lower, {"productivity", "focus", "concentration", "work",
                                    "study", "learning", "development", "coding",
                                    "programming", "design", "analysis", "research",
                                    "documentation", "planning", "organization",
                                    "management", "collaboration"})
    THEN Result("work", 85, FALSE)
  ELSE [category |-> "fallthrough", confidence |-> 0, is_distraction |-> FALSE,
        error |-> FALSE]

\* the part of _fallback_classify after the chrome branch.  kw_init: whether
\* _init_fallback_classifier has run (only then do the keyword sets exist).
KeywordBranch(title, kw_init) ==
  LET title_lower == Lower(title) IN
  IF Contains(title_lower, "cursor") \/ Contains(title_lower, "code") THEN
    IF Contains(title_lower, "cursor.exe") THEN Result("work", 95, FALSE)
    ELSE IF ContainsAny(title_lower, {".py", ".js", ".jsx", ".ts", ".tsx", ".html", ".css"})
      THEN Result("work", 95, FALSE)
    ELSE Result("work", 90, FALSE)
  ELSE IF ~kw_init THEN Raised
  ELSE IF ContainsAny(title_lower, educational_keywords) THEN Result("educational", 80, FALSE)
  ELSE IF ContainsAny(title_lower, productive_keywords) THEN Result("work", 80, FALSE)
  ELSE IF ContainsAny(title_lower, entertainment_keywords)
    THEN Result("entertainment", 70, TRUE)
  ELSE Result("neutral", 50, FALSE)

_fallback_classify(title, kw_init) ==
  IF Contains(Lower(title), "chrome") /\ ChromeBranch(title).category # "fallthrough"
  THEN ChromeBranch(title)
  ELSE KeywordBranch(title, kw_init)

\* the embedding vote with social_media left out of the distracting categories
BertVote_NoSocialMedia(best, sim) ==
  LET dist == best \in {"entertainment", "gaming", "streaming"}
      conf == IF best \in {"educational", "work"} /\ sim < 80 THEN 80 ELSE sim
  IN Result(best, conf, IF best \in {"educational", "work"} THEN FALSE ELSE dist)

\* the embedding vote of classify_content: best is the arg-max category of the
\* weighted cosine similarities, sim its value (both decided by the text model)
BertVote(best, sim) ==
  LET dist == best \in DistractingCategories
      conf == IF best \in {"educational", "work"} /\ sim < 80 THEN 80 ELSE sim
  IN Result(best, conf, IF best \in {"educational", "work"} THEN FALSE ELSE dist)

\* fallback_mode: self.fallback_mode; encode_ok: text_model is loaded and encode
\* returns; best, sim: what the embedding arg-max yields
classify_content(title, fallback_mode, encode_ok, best, sim) ==
  LET title_lower == Lower(title)
      guarded(r) == IF r.error
                    THEN (IF fallback_mode THEN _fallback_classify(title, TRUE)
                          ELSE Result("neutral", 50, FALSE))
                    ELSE r
  IN
  IF fallback_mode THEN guarded(_fallback_classify(title, TRUE))
  ELSE IF Len(Strip(title)) < 3 THEN Result("neutral", 50, FALSE)
  ELSE IF Contains(title_lower, "chrome") THEN guarded(_fallback_classify(title, FALSE))
  ELSE IF \/ Contains(title_lower, "cursor")
          \/ Contains(title_lower, "code")
          \/ Contains(title_lower, "visual studio") THEN
    IF ContainsAny(title_lower, {".py", ".js", ".jsx", ".ts", ".tsx", ".html", ".css",
                                 ".java", ".cpp", ".c"})
    THEN Result("work", 95, FALSE)
    ELSE Result("work", 90, FALSE)
  ELSE IF ~encode_ok THEN guarded(Raised)
  ELSE BertVote(best, sim)

\* the classification part of the dict get_detailed_analysis returns
get_detailed_analysis(title, fallback_mode, encode_ok, best, sim) ==
  IF Len(Strip(title)) < 3 THEN Result("neutral", 50, FALSE)
  ELSE classify_content(title, fallback_mode, encode_ok, best, sim)

(***************************************************************************)
(* SmartContentClassifier (home/ubuntu/focusguard-app/main.py, the earlier *)
(* revision)                                                               *)
(***************************************************************************)
WordChars ==
  {"a","b","c","d","e","f","g","h","i","j","k","l","m","n","o","p","q","r","s",
   "t","u","v","w","x","y","z","0","1","2","3","4","5","6","7","8","9","_"}

\* the maximal runs of \w characters of s: what \b(...)\b can match
\* (cur: the run that s continues; a string of more than 32 characters is
\* scanned half by half, and a run that spans the two halves is joined)
RECURSIVE WordRuns(_, _)
WordRuns(s, cur) ==
  IF Len(s) = 0 THEN (IF cur = "" THEN << >> ELSE << cur >>)
  ELSE IF Len(s) > 32
  THEN LET h == Len(s) \div 2
           l == WordRuns(SubSeq(s, 1, h), cur)
           r == WordRuns(SubSeq(s, h + 1, Len(s)), "")
       IN IF SubSeq(s, h, h) \in WordChars /\ SubSeq(s, h + 1, h + 1) \in WordChars
          THEN SubSeq(l, 1, Len(l) - 1) \o << l[Len(l)] \o r[1] >> \o Tail(r)
          ELSE l \o r
  ELSE IF SubSeq(s, 1, 1) \in WordChars
       THEN WordRuns(SubSeq(s, 2, Len(s)), cur \o SubSeq(s, 1, 1))
       ELSE (IF cur = "" THEN << >> ELSE << cur >>) \o WordRuns(SubSeq(s, 2, Len(s)), "")

entertainment_patterns ==
  {"youtube", "netflix", "spotify", "instagram", "facebook", "twitter", "tiktok",
   "reddit", "twitch", "discord",
   "game", "gaming", "play", "movie", "music", "video", "stream", "live",
   "entertainment", "fun", "funny", "meme", "joke", "comedy", "drama",
   "reality", "show", "series", "episode", "season", "trailer", "preview"}

educational_patterns ==
  {"course", "tutorial", "learn", "study", "education", "academic", "university",
   "college", "school",
   "lecture", "lesson", "assignment", "homework", "exam", "test", "quiz", "research",
   "paper",
   "thesis", "dissertation", "documentation", "guide", "manual", "book", "textbook",
   "reference", "library", "scholar", "professor", "teacher", "instructor", "student"}

productive_patterns ==
  {"work", "project", "task", "job", "business", "office", "meeting", "presentation",
   "report",
   "analysis", "data", "code", "programming", "development", "design", "planning",
   "strategy",
   "management", "admin", "dashboard", "tool", "software", "application", "system",
   "database", "server", "network", "security", "finance", "accounting", "marketing",
   "sales", "customer", "client", "product", "service", "quality", "efficiency"}

\* sum(len(re.findall(pattern, title_lower)) for pattern in patterns): no word
\* occurs in two patterns of one group, so this is the number of word runs of
\* the title that are one of the group's words
Matches(title, words) ==
  LET runs == WordRuns(Lower(title), "")
  IN Cardinality({i \in 1..Len(runs) : runs[i] \in words})

Min(a, b) == IF a < b THEN a ELSE b

Vote(cat, conf) == [category |-> cat, confidence |-> conf]

\* the decision that gives a shared maximum to the first group that has it
PatternDecision_TieWins(e, d, p) ==
  IF e >= d /\ e >= p /\ e > 0 THEN Vote("entertainment", Min(90, 50 + e * 10))
  ELSE IF d >= e /\ d >= p /\ d > 0 THEN Vote("educational", Min(90, 50 + d * 10))
  ELSE IF p >= e /\ p >= d /\ p > 0 THEN Vote("productive", Min(90, 50 + p * 10))
  ELSE Vote("neutral", 50)

\* the decision of classify_with_patterns on the three match counts
PatternDecision(e, d, p) ==
  IF e > d /\ e > p THEN Vote("entertainment", Min(90, 50 + e * 10))
  ELSE IF d > e /\ d > p THEN Vote("educational", Min(90, 50 + d * 10))
  ELSE IF p > e /\ p > d THEN Vote("productive", Min(90, 50 + p * 10))
  ELSE Vote("neutral", 50)

classify_with_patterns(title) ==
  PatternDecision(Matches(title, entertainment_patterns),
                  Matches(title, educational_patterns),
                  Matches(title, productive_patterns))

\* what classify_with_ai can return when spaCy runs: the scores come from
\* spaCy's tokens and entities
AiVotes ==
  {Vote("entertainment", 80), Vote("educational", 70), Vote("productive", 90),
   Vote("neutral", 50)}

\* a voter whose library is missing or raises
Failed == Vote("failed", 0)

\* ai: Failed when nlp is not loaded or raises, else the vote spaCy leads to
classify_with_ai(title, ai) ==
  IF ai = Failed THEN classify_with_patterns(title) ELSE ai

\* what classify_with_linguistic_features can return when TextBlob runs
LinguisticVotes ==
  {Vote("entertainment", 70), Vote("educational", 60), Vote("productive", 80),
   Vote("neutral", 50)}

classify_with_linguistic_features(title, ling) ==
  IF ling = Failed THEN classify_with_patterns(title) ELSE ling

\* the vote that prefers the last voter on a tie
MostVoted_LastOnTie(classifications) ==
  LET votes(c) == Cardinality({i \in 1..Len(classifications) : classifications[i] = c})
      top == CHOOSE i \in 1..Len(classifications) :
               /\ \A j \in 1..Len(classifications) :
                     votes(classifications[j]) <= votes(classifications[i])
               /\ \A j \in (i + 1)..Len(classifications) :
                     votes(classifications[j]) < votes(classifications[i])
  IN classifications[top]

\* max(vote_counts, key=vote_counts.get): the first key, in insertion order,
\* among those with the most votes
MostVoted(classifications) ==
  LET votes(c) == Cardinality({i \in 1..Len(classifications) : classifications[i] = c})
      top == CHOOSE i \in 1..Len(classifications) :
               /\ \A j \in 1..Len(classifications) :
                     votes(classifications[j]) <= votes(classifications[i])
               /\ \A j \in 1..(i - 1) :
                     votes(classifications[j]) < votes(classifications[i])
  IN classifications[top]

RECURSIVE SumSeq(_)
SumSeq(q) == IF Len(q) = 0 THEN 0 ELSE Head(q) + SumSeq(Tail(q))

\* arity: the length of the returned tuple; the confidence is conf_sum / conf_n
ensemble_classify(title, ai, ling) ==
  IF Len(Strip(title)) < 3
  THEN [arity |-> 2, category |-> "neutral", conf_sum |-> 50, conf_n |-> 1,
        is_distraction |-> FALSE]
  ELSE
    LET v == << classify_with_ai(title, ai), classify_with_patterns(title),
                classify_with_linguistic_features(title, ling) >>
        classifications == [i \in 1..3 |-> v[i].category]
        most_voted == MostVoted(classifications)
        winning == SelectSeq(v, LAMBDA x : x.category = most_voted)
    IN [arity |-> 3, category |-> most_voted,
        conf_sum |-> SumSeq([i \in 1..Len(winning) |-> winning[i].confidence]),
        conf_n |-> Len(winning),
        is_distraction |-> most_voted \in {"entertainment"}]

\* log_activity of the earlier revision, up to the unpacking of the result into
\* (classification, confidence, is_distraction)
log_activity_classify(title, ai, ling) ==
  LET r == ensemble_classify(title, ai, ling) IN
  IF r.arity # 3 THEN Raised
  ELSE Result(r.category, r.conf_sum \div r.conf_n, r.is_distraction)

(***************************************************************************)
(* State                                                                   *)
(***************************************************************************)
VARIABLES
  classifier,   \* the AdvancedContentClassifier instance: fallback_mode, text_model
  cls_in,       \* the title (and what the external models answer) of a classifier call
  cls,          \* the last classifier call: entry point and what it returned
  ens,          \* what ensemble_classify returned to log_activity
  clock,        \* now: datetime.utcnow() in seconds; ticks: how often it advanced
  user_distraction_tracking,  \* username -> tracking record
  sessions,     \* sessions_collection: session id -> document
  notifications,  \* notifications_collection, which is only appended to: the newest
                  \* notification_data, and per session how many were built and stored
  pushed,       \* number of notifications sent over a websocket
  active_connections,  \* username -> registered websocket (0: none)
  ws_open,      \* the websockets whose peer is still connected
  window_monitor,  \* the CrossPlatformWindowMonitor instance: last_window_title
  req,          \* the requests in flight: where each is suspended, and its locals
  hist,         \* history: requests handled; per user, notifications since the last reset
  evlog,        \* history: the requests and notifications, in order (mode "trace")
  batch,        \* history: the requests that overlapped, and the record they started from
                \* (mode "batch")
  notification_counters,  \* earlier revision: username -> notifications of the cycle
  reminders     \* the scheduler's jobs, today's plan and the reminder notifications
                \* of the current minute

clsVars == << classifier, cls_in, cls, ens >>

appVars == << clock, user_distraction_tracking, sessions, notifications, pushed,
              active_connections, ws_open, window_monitor, req, hist, evlog, batch >>

vars == << classifier, cls_in, cls, ens, clock, user_distraction_tracking, sessions,
           notifications, pushed, active_connections, ws_open, window_monitor, req,
           hist, evlog, batch, notification_counters, reminders >>

(***************************************************************************)
(* The classifier on its own: Init draws a title and the answers of the    *)
(* external models, the actions are the entry points applied to it.        *)
(***************************************************************************)
MaxParts == 2

TitleWords ==
  {"Google Chrome", "YouTube", "Cursor.exe", "main.py", "FocusGuard", "Music Video",
   "Learn Python Tutorial", "ai", " a "}

RECURSIVE TitlesOf(_)
TitlesOf(n) ==
  IF n = 0 THEN {""}
  ELSE IF n = 1 THEN TitleWords
  ELSE {a \o " - " \o b : a \in TitleWords, b \in TitlesOf(n - 1)}

Titles == UNION {TitlesOf(n) : n \in 0..MaxParts}

\* similarity values the arg-max can have (hundredths)
Similarities == {40, 85}

\* the states AdvancedContentClassifier.__init__ can leave: fallback mode (no
\* BERT libraries, or neither model loaded), text model loaded, or only the
\* sentiment model loaded
ClassifierConfigs ==
  {[fallback_mode |-> TRUE,  text_model |-> FALSE],
   [fallback_mode |-> FALSE, text_model |-> TRUE],
   [fallback_mode |-> FALSE, text_model |-> FALSE]}

NoOracle == [encode_ok |-> FALSE, best |-> "work", sim |-> 40, ai |-> Failed, ling |-> Failed]

\* what the external models answer for the drawn title: the embedding arg-max
\* (current revision) when the text model is loaded; the spaCy and TextBlob
\* voters of the earlier revision, drawn along with the keyword classifier
Oracles(cfg) ==
  IF cfg.text_model
  THEN {[encode_ok |-> e, best |-> b, sim |-> s, ai |-> Failed, ling |-> Failed] :
          e \in BOOLEAN, b \in EmbeddingCategories, s \in Similarities}
  ELSE IF cfg.fallback_mode
  THEN {[encode_ok |-> FALSE, best |-> "work", sim |-> 40, ai |-> a, ling |-> l] :
          a \in AiVotes \cup {Failed}, l \in LinguisticVotes \cup {Failed}}
  ELSE {NoOracle}

NoCall == [entry |-> "none", result |-> Result("neutral", 50, FALSE)]

NoEnsemble ==
  [arity |-> 0, category |-> "", conf_sum |-> 0, conf_n |-> 1, is_distraction |-> FALSE]

(***************************************************************************)
(* The notification pipeline (focusguard-app/main.py)                      *)
(***************************************************************************)
NOTIFICATION_THROTTLE_SECONDS == 2
REPEATED_NOTIFICATION_INTERVAL == 2
\* timedelta(hours=1), in seconds
RESET_AFTER_SECONDS == 3600

Users == {"alice"}

MaxSessions == 2
SessionIds == 1..MaxSessions

MaxInflight == 2
Procs == 1..MaxInflight

\* the clock advances by single seconds, at most MaxTicks times
MaxTicks == 3

\* at most MaxEvents requests are handled
MaxEvents == 3

\* the window titles the monitor client reports
WindowTitles == {"Netflix - Show", "YouTube - Music Video", "Visual Studio Code - app.py"}

now == clock.now

\* username not in user_distraction_tracking
NoRecord ==
  [present |-> FALSE, count |-> 0, session_id |-> 0, last_reset |-> 0,
   last_distraction_active |-> FALSE, last_distracting_window |-> "",
   repeated_notification_count |-> 0, last_notification_time |-> 0]

\* the dict literal the lazy initialisations and create_focus_session store
\* (notification_sent_at is written and never read: it is left out)
NewRecord(session_id, window, t) ==
  [present |-> TRUE, count |-> 0, session_id |-> session_id, last_reset |-> t,
   last_distraction_active |-> FALSE, last_distracting_window |-> window,
   repeated_notification_count |-> 0, last_notification_time |-> t]

NoSession == [exists |-> FALSE, username |-> "", distraction_count |-> 0, completed |-> FALSE]

Idle ==
  [pc |-> "idle", kind |-> "", username |-> "", session_id |-> 0, window_title |-> "",
   count |-> 0, ws |-> 0, k |-> 0]

AllIdle == \A p \in Procs : req[p].pc = "idle"

\* the pipeline runs with the keyword classifier (fallback_mode)
AppClassifier == [fallback_mode |-> TRUE, text_model |-> FALSE]

\* classifier.get_detailed_analysis of the reported titles, computed once
AnalysisTable ==
  [t \in WindowTitles |->
     get_detailed_analysis(t, AppClassifier.fallback_mode, AppClassifier.text_model,
                           "work", 40)]

\* detailed_analysis["is_distraction"]
IsDistraction(title) == AnalysisTable[title].is_distraction

(* ---- the tracker's read-modify-write, as functions of the record ---- *)

\* monitor_activity_realtime: "Check if this is a new session"
SessionChanged(rec, session_id) == rec.session_id # session_id

\* the session reset that keeps the count of the previous session
SessionReset_KeepsCount(rec, session_id, t) ==
  [rec EXCEPT !.session_id = session_id, !.last_reset = t,
              !.repeated_notification_count = 0, !.last_distracting_window = "",
              !.last_notification_time = t]

SessionReset(rec, session_id, t) ==
  [rec EXCEPT !.count = 0, !.session_id = session_id, !.last_reset = t,
              !.repeated_notification_count = 0, !.last_distracting_window = "",
              !.last_notification_time = t]

\* the throttle with an inclusive comparison
ThrottleElapsed_Inclusive(elapsed) == elapsed >= NOTIFICATION_THROTTLE_SECONDS

\* time_since_last_notification > timedelta(seconds=NOTIFICATION_THROTTLE_SECONDS)
ThrottleElapsed(elapsed) == elapsed > NOTIFICATION_THROTTLE_SECONDS

\* time_since_last_repeated_notification > timedelta(seconds=REPEATED_NOTIFICATION_INTERVAL)
RepeatElapsed(elapsed) == elapsed > REPEATED_NOTIFICATION_INTERVAL

\* should_send_notification of monitor_activity_realtime
ShouldSend(rec, title, t) ==
  LET elapsed == t - rec.last_notification_time IN
  /\ ThrottleElapsed(elapsed)
  /\ (rec.last_distracting_window # title \/ RepeatElapsed(elapsed))

\* the record after the throttle block of monitor_activity_realtime
ThrottleUpdate(rec, title, t) ==
  IF ~ShouldSend(rec, title, t) THEN rec
  ELSE IF rec.last_distracting_window # title
  THEN [rec EXCEPT !.last_distracting_window = title,
                   !.repeated_notification_count = 0,
                   !.last_notification_time = t]
  ELSE [rec EXCEPT !.repeated_notification_count = @ + 1,
                   !.last_notification_time = t]

\* the else branch of monitor_activity_realtime: not a distraction
ProductiveUpdate(rec, t) ==
  IF rec.last_distraction_active
  THEN [rec EXCEPT !.last_distraction_active = FALSE,
                   !.repeated_notification_count = 0,
                   !.last_distracting_window = "",
                   !.last_notification_time = t]
  ELSE rec

\* send_distraction_notification: "Reset counter if new session or after 1 hour"
CounterResets(rec, session_id, t) ==
  rec.session_id # session_id \/ t - rec.last_reset > RESET_AFTER_SECONDS

CounterReset(rec, session_id, t) ==
  [rec EXCEPT !.count = 0, !.session_id = session_id, !.last_reset = t,
              !.repeated_notification_count = 0, !.last_notification_time = t]

\* the escalation one notification late
Tier_LateEscalation(count) == IF count <= 3 THEN "standard" ELSE "escalated"

\* count <= 2: the standard message; else the escalated one
Tier(count) == IF count <= 2 THEN "standard" ELSE "escalated"

\* the notification that counts twice
BeginNotification_CountsTwice(rec, window_title, session_id, t) ==
  LET r0 == IF rec.present THEN rec ELSE NewRecord(session_id, window_title, t)
      r1 == IF CounterResets(r0, session_id, t) THEN CounterReset(r0, session_id, t) ELSE r0
  IN [r1 EXCEPT !.count = @ + 2]

\* send_distraction_notification up to its first await: lazy initialisation,
\* reset, increment of the count
BeginNotification(rec, window_title, session_id, t) ==
  LET r0 == IF rec.present THEN rec ELSE NewRecord(session_id, window_title, t)
      r1 == IF CounterResets(r0, session_id, t) THEN CounterReset(r0, session_id, t) ELSE r0
  IN [r1 EXCEPT !.count = @ + 1]

\* whether BeginNotification resets the record it finds
BeginResets(rec, window_title, session_id, t) ==
  LET r0 == IF rec.present THEN rec ELSE NewRecord(session_id, window_title, t)
  IN CounterResets(r0, session_id, t)

\* monitor_activity_realtime from the lazy initialisation to the call of
\* send_distraction_notification
Track(rec, session_id, title, dist, t) ==
  LET r0 == IF rec.present THEN rec ELSE NewRecord(session_id, "", t)
      r1 == IF SessionChanged(r0, session_id) THEN SessionReset(r0, session_id, t) ELSE r0
  IN IF dist THEN ThrottleUpdate(r1, title, t) ELSE ProductiveUpdate(r1, t)

\* the decision to notify that does not look at the classification
TrackSends_AnyClass(rec, session_id, title, dist, t) ==
  LET r0 == IF rec.present THEN rec ELSE NewRecord(session_id, "", t)
      r1 == IF SessionChanged(r0, session_id) THEN SessionReset(r0, session_id, t) ELSE r0
  IN ShouldSend(r1, title, t)

TrackSends(rec, session_id, title, dist, t) ==
  LET r0 == IF rec.present THEN rec ELSE NewRecord(session_id, "", t)
      r1 == IF SessionChanged(r0, session_id) THEN SessionReset(r0, session_id, t) ELSE r0
  IN dist /\ ShouldSend(r1, title, t)

TrackResets(rec, session_id, t) ==
  rec.present /\ SessionChanged(rec, session_id)

(* ---- initial state ---- *)

NoNotification ==
  [username |-> "", session_id |-> 0, window_title |-> "", created_at |-> 0,
   distraction_count |-> 0, repeated_notification_count |-> 0, tier |-> "",
   stored |-> FALSE, k |-> 0]

NoEvent ==
  [kind |-> "", username |-> "", session_id |-> 0, window_title |-> "",
   is_distraction |-> FALSE, had_record |-> FALSE, tracked |-> FALSE, elapsed |-> -1,
   fired |-> FALSE, count |-> 0, rep |-> 0]

\* what the last request found and did
Outcome(e) ==
  [kind |-> e.kind, is_distraction |-> e.is_distraction, tracked |-> e.tracked,
   elapsed |-> e.elapsed, fired |-> e.fired]

NoBatch == [start |-> NoRecord, t |-> 0, reqs |-> << >>, notifs |-> << >>]

\* the history that mode keeps: "plain" the last request, "trace" all of them,
\* "batch" the requests that overlapped
NoHistory(mode) ==
  [mode |-> mode, events |-> 0, last |-> Outcome(NoEvent), fired |-> [u \in Users |-> 0]]

\* the module has been imported: scheduler.add_job(..., id="reminder_checker")
\* has run, the scheduler has not been started, no plan is looked at
NoReminders ==
  [jobs |-> {"reminder_checker"}, running |-> FALSE, minute |-> 0, fired |-> FALSE,
   due |-> {}, plan |-> << >>, sent |-> << >>]

\* the process has just started: nothing is tracked; connected says whether
\* alice's dashboard holds a websocket; the database holds a session of an
\* earlier run
AppState(connected) ==
  /\ clock = [now |-> 0, ticks |-> 0]
  /\ user_distraction_tracking = [u \in Users |-> NoRecord]
  /\ sessions = [s \in SessionIds |->
                   IF s = 1 THEN [exists |-> TRUE, username |-> "alice",
                                  distraction_count |-> 0, completed |-> FALSE]
                   ELSE NoSession]
  /\ notifications = [last |-> NoNotification, built |-> [s \in SessionIds |-> 0],
                      stored |-> [s \in SessionIds |-> 0]]
  /\ pushed = 0
  /\ active_connections = [u \in Users |-> IF connected /\ u = "alice" THEN 1 ELSE 0]
  /\ ws_open = IF connected THEN {1} ELSE {}
  /\ window_monitor = [last_window_title |-> ""]
  /\ req = [p \in Procs |-> Idle]
  /\ evlog = << >>
  /\ batch = NoBatch
  /\ notification_counters = [u \in Users |-> 0]
  /\ reminders = NoReminders

AppStart == AppState(FALSE) /\ hist = NoHistory("plain")

(* ---- operations ---- *)

InFlight == {p \in Procs : req[p].pc # "idle"}

\* a new request is accepted: fewer than limit are in flight, and it runs on
\* the first free worker
CanStart(p, limit) ==
  /\ hist.events < MaxEvents
  /\ Cardinality(InFlight) < limit
  /\ req[p].pc = "idle"
  /\ \A q \in Procs : q < p => req[q].pc # "idle"

Event(kind, u, sid, title, dist, fired) ==
  LET rec == user_distraction_tracking[u] IN
  [kind |-> kind, username |-> u, session_id |-> sid, window_title |-> title,
   is_distraction |-> dist, had_record |-> rec.present,
   tracked |-> rec.present /\ rec.session_id = sid,
   elapsed |-> IF rec.present THEN now - rec.last_notification_time ELSE -1,
   fired |-> fired, count |-> 0, rep |-> 0]

Stamp(e) == e @@ [t |-> now]

\* the request e has been handled; f: the notifications of its user since the
\* last reset
Handled(e, f) ==
  /\ hist' = [hist EXCEPT !.events = @ + 1, !.last = Outcome(e), !.fired[e.username] = f]
  /\ evlog' = IF hist.mode = "trace" THEN Append(evlog, Stamp(e)) ELSE evlog

\* d seconds pass while no request is being handled
Advance(d) ==
  /\ AllIdle
  /\ clock.ticks < MaxTicks
  /\ clock' = [clock EXCEPT !.now = @ + d, !.ticks = @ + 1]
  /\ UNCHANGED << user_distraction_tracking, sessions, notifications, pushed,
                  active_connections, ws_open, window_monitor, req, hist, evlog, batch >>
  /\ UNCHANGED clsVars
  /\ UNCHANGED reminders
  /\ UNCHANGED notification_counters

Tick == Advance(1)

\* the monitor client's next report arrives just after the throttle interval
Wait == Advance(NOTIFICATION_THROTTLE_SECONDS + 1)

\* POST /users/{username}/sessions/
create_focus_session(u, limit) ==
  /\ hist.events < MaxEvents
  /\ Cardinality(InFlight) < limit
  /\ \E s \in SessionIds :
       /\ ~sessions[s].exists
       /\ \A s2 \in SessionIds : s2 < s => sessions[s2].exists
       /\ sessions' = [sessions EXCEPT ![s] =
                         [exists |-> TRUE, username |-> u, distraction_count |-> 0,
                          completed |-> FALSE]]
       /\ user_distraction_tracking' =
            [user_distraction_tracking EXCEPT ![u] =
               IF @.present THEN SessionReset(@, s, now) ELSE NewRecord(s, "", now)]
       /\ Handled(Event("create", u, s, "", FALSE, FALSE), 0)
  /\ batch' = IF hist.mode = "batch" THEN NoBatch ELSE batch
  /\ UNCHANGED << clock, notifications, pushed, active_connections, ws_open,
                  window_monitor, req >>
  /\ UNCHANGED clsVars
  /\ UNCHANGED reminders
  /\ UNCHANGED notification_counters

\* the request suspended in send_distraction_notification at
\* await get_user_by_username
Suspended(kind, u, sid, title, count, k) ==
  [pc |-> "get_user", kind |-> kind, username |-> u, session_id |-> sid,
   window_title |-> title, count |-> count, ws |-> 0, k |-> k]

\* POST /sessions/{session_id}/monitor-activity (and /activity/enhanced, which
\* delegates to it), up to the first await that follows the tracker update
monitor_activity_realtime(p, sid, title, limit) ==
  /\ CanStart(p, limit)
  /\ sessions[sid].exists
  /\ LET u == sessions[sid].username
         rec == user_distraction_tracking[u]
         dist == IsDistraction(title)
         sends == TrackSends(rec, sid, title, dist, now)
         r1 == Track(rec, sid, title, dist, now)
         r2 == IF sends THEN BeginNotification(r1, title, sid, now) ELSE r1
         f1 == IF TrackResets(rec, sid, now) THEN 0 ELSE hist.fired[u]
         f2 == IF ~sends THEN f1
               ELSE IF BeginResets(r1, title, sid, now) THEN 1 ELSE f1 + 1
     IN /\ user_distraction_tracking' = [user_distraction_tracking EXCEPT ![u] = r2]
        /\ req' = [req EXCEPT ![p] =
                     IF sends THEN Suspended("ma", u, sid, title, r2.count, f2) ELSE Idle]
        /\ Handled(Event("ma", u, sid, title, dist, sends), f2)
        /\ batch' = IF hist.mode # "batch" THEN batch
                    ELSE IF AllIdle
                    THEN [start |-> rec, t |-> now,
                          reqs |-> << [session_id |-> sid, window_title |-> title] >>,
                          notifs |-> << >>]
                    ELSE [batch EXCEPT !.reqs =
                            Append(@, [session_id |-> sid, window_title |-> title])]
  /\ UNCHANGED << clock, sessions, notifications, pushed, active_connections, ws_open,
                  window_monitor >>
  /\ UNCHANGED clsVars
  /\ UNCHANGED reminders
  /\ UNCHANGED notification_counters

\* CrossPlatformWindowMonitor.should_send_activity: the instance never gets a
\* last_distracting_window attribute, so hasattr(...) is false
should_send_activity(monitor, current_title) ==
  \/ current_title # monitor.last_window_title
  \/ /\ "last_distracting_window" \in DOMAIN monitor
     /\ monitor.last_distracting_window # ""
     /\ current_title = monitor.last_distracting_window

\* the direct callers of send_distraction_notification: the record after the
\* call has reached its first await
DirectNotify(p, kind, u, sid, title) ==
  LET rec == user_distraction_tracking[u]
      r2 == BeginNotification(rec, title, sid, now)
      f == IF BeginResets(rec, title, sid, now) THEN 1 ELSE hist.fired[u] + 1
  IN /\ user_distraction_tracking' = [user_distraction_tracking EXCEPT ![u] = r2]
     /\ req' = [req EXCEPT ![p] = Suspended(kind, u, sid, title, r2.count, f)]
     /\ Handled(Event(kind, u, sid, title, TRUE, TRUE), f)

\* POST /window-monitor/check-window/{username}; title: the active window
check_current_window(p, u, sid, title, limit) ==
  /\ CanStart(p, limit)
  /\ sessions[sid].exists
  /\ sessions[sid].username = u
  /\ LET should_send == should_send_activity(window_monitor, title)
         dist == IsDistraction(title)
     IN IF should_send /\ dist
        THEN /\ DirectNotify(p, "cw", u, sid, title)
             /\ UNCHANGED window_monitor
        ELSE /\ window_monitor' =
                  IF should_send THEN [window_monitor EXCEPT !.last_window_title = title]
                  ELSE window_monitor
             /\ Handled(Event("cw", u, sid, title, dist, FALSE), hist.fired[u])
             /\ UNCHANGED << user_distraction_tracking, req >>
  /\ UNCHANGED << clock, sessions, notifications, pushed, active_connections, ws_open,
                  batch >>
  /\ UNCHANGED clsVars
  /\ UNCHANGED reminders
  /\ UNCHANGED notification_counters

\* POST /window-monitor/start-monitoring/{username}; title: the active window
start_window_monitoring(p, u, sid, title, limit) ==
  /\ CanStart(p, limit)
  /\ sessions[sid].exists
  /\ sessions[sid].username = u
  /\ LET dist == IsDistraction(title)
     IN IF dist
        THEN DirectNotify(p, "sm", u, sid, title)
        ELSE /\ Handled(Event("sm", u, sid, title, dist, FALSE), hist.fired[u])
             /\ UNCHANGED << user_distraction_tracking, req >>
  /\ UNCHANGED << clock, sessions, notifications, pushed, active_connections, ws_open,
                  window_monitor, batch >>
  /\ UNCHANGED clsVars
  /\ UNCHANGED reminders
  /\ UNCHANGED notification_counters

\* monitor_activity_realtime once send_distraction_notification has returned
AfterNotification(rec) == [rec EXCEPT !.last_distraction_active = TRUE]

\* what the caller does once send_distraction_notification has returned;
\* stored: it returned notification_data (not None)
Return(p, stored) ==
  LET r == req[p] IN
  /\ req' = [req EXCEPT ![p] = Idle]
  /\ user_distraction_tracking' =
       IF r.kind = "ma"
       THEN [user_distraction_tracking EXCEPT ![r.username] = AfterNotification(@)]
       ELSE user_distraction_tracking
  /\ sessions' =
       IF r.kind = "ma" /\ stored
       THEN [sessions EXCEPT ![r.session_id].distraction_count = @ + 1]
       ELSE sessions
  /\ window_monitor' =
       IF r.kind = "cw"
       THEN [window_monitor EXCEPT !.last_window_title = r.window_title]
       ELSE window_monitor

\* notification_data of send_distraction_notification
NotificationData(r, current_tracking, ok) ==
  [username |-> r.username, session_id |-> r.session_id,
   window_title |-> r.window_title, created_at |-> now,
   distraction_count |-> r.count,
   repeated_notification_count |-> current_tracking.repeated_notification_count,
   tier |-> Tier(r.count), stored |-> ok, k |-> r.k]

\* the notification that is pushed although the insert has failed
store_notification_PushesUnstored(p) ==
  /\ req[p].pc = "get_user"
  /\ LET r == req[p]
         current_tracking == user_distraction_tracking[r.username]
     IN \E ok \in BOOLEAN :
       LET n == NotificationData(r, current_tracking, ok) IN
       /\ notifications' =
            [notifications EXCEPT !.last = n,
                                  !.built[r.session_id] = @ + 1,
                                  !.stored[r.session_id] = IF ok THEN @ + 1 ELSE @]
       /\ evlog' = IF hist.mode = "trace"
                   THEN Append(evlog,
                          Stamp([NoEvent EXCEPT
                                   !.kind = "notify", !.username = r.username,
                                   !.session_id = r.session_id,
                                   !.window_title = r.window_title,
                                   !.count = n.distraction_count,
                                   !.rep = n.repeated_notification_count]))
                   ELSE evlog
       /\ batch' = IF hist.mode = "batch"
                   THEN [batch EXCEPT !.notifs =
                           Append(@, [count |-> n.distraction_count,
                                      rep |-> n.repeated_notification_count])]
                   ELSE batch
       /\ IF active_connections[r.username] # 0
          THEN /\ req' = [req EXCEPT ![p].pc = "send_text",
                                     ![p].ws = active_connections[r.username]]
               /\ UNCHANGED << user_distraction_tracking, sessions, window_monitor >>
          ELSE Return(p, ok)
  /\ UNCHANGED << clock, pushed, active_connections, ws_open, hist >>
  /\ UNCHANGED clsVars
  /\ UNCHANGED reminders
  /\ UNCHANGED notification_counters

\* send_distraction_notification from the return of get_user_by_username to the
\* await of send_text: the notification is built and stored
store_notification(p) ==
  /\ req[p].pc = "get_user"
  /\ LET r == req[p]
         current_tracking == user_distraction_tracking[r.username]
     IN \E ok \in BOOLEAN :
       LET n == NotificationData(r, current_tracking, ok) IN
       /\ notifications' =
            [notifications EXCEPT !.last = n,
                                  !.built[r.session_id] = @ + 1,
                                  !.stored[r.session_id] = IF ok THEN @ + 1 ELSE @]
       /\ evlog' = IF hist.mode = "trace"
                   THEN Append(evlog,
                          Stamp([NoEvent EXCEPT
                                   !.kind = "notify", !.username = r.username,
                                   !.session_id = r.session_id,
                                   !.window_title = r.window_title,
                                   !.count = n.distraction_count,
                                   !.rep = n.repeated_notification_count]))
                   ELSE evlog
       /\ batch' = IF hist.mode = "batch"
                   THEN [batch EXCEPT !.notifs =
                           Append(@, [count |-> n.distraction_count,
                                      rep |-> n.repeated_notification_count])]
                   ELSE batch
       /\ IF ok /\ active_connections[r.username] # 0
          THEN /\ req' = [req EXCEPT ![p].pc = "send_text",
                                     ![p].ws = active_connections[r.username]]
               /\ UNCHANGED << user_distraction_tracking, sessions, window_monitor >>
          ELSE Return(p, ok)
  /\ UNCHANGED << clock, pushed, active_connections, ws_open, hist >>
  /\ UNCHANGED clsVars
  /\ UNCHANGED reminders
  /\ UNCHANGED notification_counters

\* the send_text of send_distraction_notification completes or raises
push_notification(p) ==
  /\ req[p].pc = "send_text"
  /\ \E ok \in BOOLEAN :
       /\ ok => req[p].ws \in ws_open
       /\ pushed' = IF ok THEN pushed + 1 ELSE pushed
       /\ active_connections' =
            IF ok THEN active_connections
            ELSE [active_connections EXCEPT ![req[p].username] = 0]
       /\ ws_open' = IF ok THEN ws_open ELSE ws_open \ {req[p].ws}
  /\ Return(p, TRUE)
  /\ UNCHANGED << clock, notifications, hist, evlog, batch >>
  /\ UNCHANGED clsVars
  /\ UNCHANGED reminders
  /\ UNCHANGED notification_counters

AppClassifierIdle ==
  /\ classifier = AppClassifier
  /\ cls_in = [title |-> "", oracle |-> NoOracle]
  /\ cls = NoCall
  /\ ens = NoEnsemble

\* the requests are handled one at a time; alice's dashboard is connected
Init ==
  /\ AppClassifierIdle
  /\ AppState(TRUE)
  /\ hist = NoHistory("plain")

Next ==
  \/ Tick
  \/ \E u \in Users : create_focus_session(u, 1)
  \/ \E p \in Procs, sid \in SessionIds, title \in WindowTitles :
       monitor_activity_realtime(p, sid, title, 1)
  \/ \E p \in Procs, u \in Users, sid \in SessionIds, title \in WindowTitles :
       check_current_window(p, u, sid, title, 1)
  \/ \E p \in Procs, u \in Users, sid \in SessionIds, title \in WindowTitles :
       start_window_monitoring(p, u, sid, title, 1)
  \/ \E p \in Procs : store_notification(p)
  \/ \E p \in Procs : push_notification(p)

Spec == Init /\ [][Next]_vars

(***************************************************************************)
(* The classifier on its own, continued: specification                     *)
(***************************************************************************)
InitClassify ==
  /\ classifier \in ClassifierConfigs
  /\ \E t \in Titles, o \in Oracles(classifier) : cls_in = [title |-> t, oracle |-> o]
  /\ cls = NoCall
  /\ ens = NoEnsemble
  /\ AppStart

ClassifyContent ==
  /\ cls.entry = "none"
  /\ cls' = [entry |-> "classify_content",
             result |-> classify_content(cls_in.title, classifier.fallback_mode,
                                         classifier.text_model /\ cls_in.oracle.encode_ok,
                                         cls_in.oracle.best, cls_in.oracle.sim)]
  /\ UNCHANGED << classifier, cls_in, ens >>
  /\ UNCHANGED appVars
  /\ UNCHANGED reminders
  /\ UNCHANGED notification_counters

GetDetailedAnalysis ==
  /\ cls.entry = "none"
  /\ cls' = [entry |-> "get_detailed_analysis",
             result |-> get_detailed_analysis(cls_in.title, classifier.fallback_mode,
                                              classifier.text_model /\ cls_in.oracle.encode_ok,
                                              cls_in.oracle.best, cls_in.oracle.sim)]
  /\ UNCHANGED << classifier, cls_in, ens >>
  /\ UNCHANGED appVars
  /\ UNCHANGED reminders
  /\ UNCHANGED notification_counters

\* POST /sessions/{id}/activity of the earlier revision
LogActivity ==
  /\ cls.entry = "none"
  /\ ens' = ensemble_classify(cls_in.title, cls_in.oracle.ai, cls_in.oracle.ling)
  /\ cls' = [entry |-> "log_activity",
             result |-> log_activity_classify(cls_in.title, cls_in.oracle.ai,
                                              cls_in.oracle.ling)]
  /\ UNCHANGED << classifier, cls_in >>
  /\ UNCHANGED appVars
  /\ UNCHANGED reminders
  /\ UNCHANGED notification_counters

NextClassify == ClassifyContent \/ GetDetailedAnalysis \/ LogActivity

SpecClassify == InitClassify /\ [][NextClassify]_vars

(***************************************************************************)
(* The keyword classifiers on titles that mix educational and              *)
(* entertainment cues                                                      *)
(***************************************************************************)
\* the application or browser the title starts with
CueApps == {"", "Google Chrome - ", "Cursor.exe - "}

\* words of educational_keywords / educational_patterns
EducationalCues == {"Tutorial", "Learn", "Course"}

\* words of entertainment_keywords / entertainment_patterns
EntertainmentCues == {"YouTube", "Movie", "Video"}

CueTitles ==
  {app \o a \o " " \o b : app \in CueApps, a \in EducationalCues, b \in EntertainmentCues}
  \cup
  {app \o b \o " " \o a : app \in CueApps, a \in EducationalCues, b \in EntertainmentCues}

InitKeywords ==
  /\ classifier = AppClassifier
  /\ \E t \in CueTitles : cls_in = [title |-> t, oracle |-> NoOracle]
  /\ cls = NoCall
  /\ ens = NoEnsemble
  /\ AppStart

\* the keyword classifier of the current revision, initialised
FallbackClassify ==
  /\ cls.entry = "none"
  /\ cls' = [entry |-> "_fallback_classify", result |-> _fallback_classify(cls_in.title, TRUE)]
  /\ UNCHANGED << classifier, cls_in, ens >>
  /\ UNCHANGED appVars
  /\ UNCHANGED reminders
  /\ UNCHANGED notification_counters

\* the pattern classifier of the earlier revision
ClassifyWithPatterns ==
  /\ cls.entry = "none"
  /\ cls' = [entry |-> "classify_with_patterns",
             result |-> classify_with_patterns(cls_in.title)]
  /\ UNCHANGED << classifier, cls_in, ens >>
  /\ UNCHANGED appVars
  /\ UNCHANGED reminders
  /\ UNCHANGED notification_counters

NextKeywords == FallbackClassify \/ ClassifyWithPatterns

SpecKeywords == InitKeywords /\ [][NextKeywords]_vars

(***************************************************************************)
(* The pattern classifier of the earlier revision on titles with given     *)
(* numbers of matches                                                      *)
(***************************************************************************)
\* at most MaxMatches words of each group in a title
MaxMatches == 5

RECURSIVE Repeat(_, _)
Repeat(w, n) == IF n = 0 THEN "" ELSE w \o " " \o Repeat(w, n - 1)

\* a title with e entertainment, d educational and p productive words
PatternTitle(e, d, p) == Repeat("Movie", e) \o Repeat("Course", d) \o Repeat("Report", p)

InitPatterns ==
  /\ classifier = AppClassifier
  /\ \E e \in 0..MaxMatches, d \in 0..MaxMatches, p \in 0..MaxMatches :
       cls_in = [title |-> PatternTitle(e, d, p), oracle |-> NoOracle,
                 counts |-> [e |-> e, d |-> d, p |-> p]]
  /\ cls = NoCall
  /\ ens = NoEnsemble
  /\ AppStart

NextPatterns == ClassifyWithPatterns

SpecPatterns == InitPatterns /\ [][NextPatterns]_vars

(***************************************************************************)
(* The monitor client alone, with the history of its requests kept         *)
(***************************************************************************)
InitStreak ==
  /\ AppClassifierIdle
  /\ AppState(TRUE)
  /\ hist = NoHistory("trace")

NextStreak ==
  \/ Tick
  \/ Wait
  \/ \E u \in Users : create_focus_session(u, 1)
  \/ \E p \in Procs, sid \in SessionIds, title \in WindowTitles :
       monitor_activity_realtime(p, sid, title, 1)
  \/ \E p \in Procs : store_notification(p)
  \/ \E p \in Procs : push_notification(p)

SpecStreak == InitStreak /\ [][NextStreak]_vars

(***************************************************************************)
(* Requests of the monitor client that overlap at their awaits             *)
(***************************************************************************)
InitConc ==
  /\ AppClassifierIdle
  /\ AppState(TRUE)
  /\ hist = NoHistory("batch")

NextConc ==
  \/ Tick
  \/ \E u \in Users : create_focus_session(u, 1)
  \/ \E p \in Procs, sid \in SessionIds, title \in WindowTitles :
       monitor_activity_realtime(p, sid, title, MaxInflight)
  \/ \E p \in Procs : store_notification(p)
  \/ \E p \in Procs : push_notification(p)

SpecConc == InitConc /\ [][NextConc]_vars

(***************************************************************************)
(* The monitor client over more than an hour                               *)
(***************************************************************************)
\* the monitor client's next report arrives just over an hour later
Hour == Advance(RESET_AFTER_SECONDS + 1)

InitHour ==
  /\ AppClassifierIdle
  /\ AppState(TRUE)
  /\ hist = NoHistory("plain")

NextHour ==
  \/ Tick
  \/ Hour
  \/ \E p \in Procs, sid \in SessionIds, title \in WindowTitles :
       monitor_activity_realtime(p, sid, title, 1)
  \/ \E p \in Procs : store_notification(p)
  \/ \E p \in Procs : push_notification(p)

SpecHour == InitHour /\ [][NextHour]_vars

(***************************************************************************)
(* Sessions that are completed                                             *)
(***************************************************************************)
\* PUT /sessions/{session_id}/complete: the session document is marked
\* completed (cleanup_session_audio removes uploaded audio files only)
complete_session(sid, limit) ==
  /\ hist.events < MaxEvents
  /\ Cardinality(InFlight) < limit
  /\ sessions[sid].exists
  /\ sessions' = [sessions EXCEPT ![sid].completed = TRUE]
  /\ Handled(Event("complete", sessions[sid].username, sid, "", FALSE, FALSE),
             hist.fired[sessions[sid].username])
  /\ UNCHANGED << clock, user_distraction_tracking, notifications, pushed,
                  active_connections, ws_open, window_monitor, req, batch >>
  /\ UNCHANGED clsVars
  /\ UNCHANGED reminders
  /\ UNCHANGED notification_counters

\* GET /users/{username}/distraction-stats
get_distraction_stats(username) ==
  LET current_stats == user_distraction_tracking[username] IN
  [username |-> username,
   current_distraction_count |-> IF current_stats.present THEN current_stats.count ELSE 0,
   current_session_id |-> IF current_stats.present THEN current_stats.session_id ELSE 0]

InitComplete ==
  /\ AppClassifierIdle
  /\ AppState(TRUE)
  /\ hist = NoHistory("plain")

NextComplete ==
  \/ Tick
  \/ \E p \in Procs, sid \in SessionIds, title \in WindowTitles :
       monitor_activity_realtime(p, sid, title, 1)
  \/ \E p \in Procs, u \in Users, sid \in SessionIds, title \in WindowTitles :
       start_window_monitoring(p, u, sid, title, 1)
  \/ \E p \in Procs : store_notification(p)
  \/ \E p \in Procs : push_notification(p)
  \/ \E sid \in SessionIds : complete_session(sid, 1)

SpecComplete == InitComplete /\ [][NextComplete]_vars

(***************************************************************************)
(* All the endpoints that classify a window title                          *)
(***************************************************************************)
\* classifier.classify_content of the reported titles, computed once
ClassificationTable ==
  [t \in WindowTitles |->
     classify_content(t, AppClassifier.fallback_mode, AppClassifier.text_model, "work", 40)]

\* POST /sessions/{session_id}/activity/log-only: the activity is classified
\* with classify_content and logged; the tracker is not looked at
log_activity_only(p, sid, title, limit) ==
  /\ CanStart(p, limit)
  /\ sessions[sid].exists
  /\ LET is_distraction == ClassificationTable[title].is_distraction
     IN Handled(Event("lo", sessions[sid].username, sid, title, is_distraction, FALSE),
                hist.fired[sessions[sid].username])
  /\ UNCHANGED << clock, user_distraction_tracking, sessions, notifications, pushed,
                  active_connections, ws_open, window_monitor, req, batch >>
  /\ UNCHANGED clsVars
  /\ UNCHANGED reminders
  /\ UNCHANGED notification_counters

InitEndpoints ==
  /\ AppClassifierIdle
  /\ AppState(TRUE)
  /\ hist = NoHistory("plain")

NextEndpoints ==
  \/ Tick
  \/ \E p \in Procs, sid \in SessionIds, title \in WindowTitles :
       monitor_activity_realtime(p, sid, title, 1)
  \/ \E p \in Procs, sid \in SessionIds, title \in WindowTitles :
       log_activity_only(p, sid, title, 1)
  \/ \E p \in Procs, u \in Users, sid \in SessionIds, title \in WindowTitles :
       check_current_window(p, u, sid, title, 1)
  \/ \E p \in Procs, u \in Users, sid \in SessionIds, title \in WindowTitles :
       start_window_monitoring(p, u, sid, title, 1)
  \/ \E p \in Procs : store_notification(p)
  \/ \E p \in Procs : push_notification(p)

SpecEndpoints == InitEndpoints /\ [][NextEndpoints]_vars

(***************************************************************************)
(* The notification cycle of the earlier revision                          *)
(* (home/ubuntu/focusguard-app/main.py)                                    *)
(***************************************************************************)
\* at most MaxCalls activities are posted to /sessions/{id}/activity/enhanced
MaxCalls == 5

\* what the client reports as classification of a distracting activity
ReportedClassifications == {"entertainment", "social_media"}

\* check_distraction_and_notify sends for count <= 2 and for count == 3
SendsFor(count) == count <= 2 \/ count = 3

\* log_activity_with_notification with is_distraction set, from the call of
\* check_distraction_and_notify to the first await of send_notification
check_distraction_and_notify(p, sid, window_title, classification, limit) ==
  /\ hist.events < MaxCalls
  /\ Cardinality(InFlight) < limit
  /\ req[p].pc = "idle"
  /\ \A q \in Procs : q < p => req[q].pc # "idle"
  /\ sessions[sid].exists
  /\ LET username == sessions[sid].username
         count == notification_counters[username] + 1
         sends == classification = "entertainment" /\ SendsFor(count)
     IN /\ notification_counters' =
             IF classification = "entertainment"
             THEN [notification_counters EXCEPT ![username] = count]
             ELSE notification_counters
        /\ req' = [req EXCEPT ![p] =
                     IF sends
                     THEN [pc |-> "insert_one", kind |-> "cdn", username |-> username,
                           session_id |-> sid, window_title |-> window_title,
                           count |-> count, ws |-> 0, k |-> 0]
                     ELSE Idle]
        /\ Handled(Event("cdn", username, sid, window_title,
                         classification = "entertainment", sends),
                   hist.fired[username])
  /\ UNCHANGED << clock, user_distraction_tracking, sessions, notifications, pushed,
                  active_connections, ws_open, window_monitor, batch >>
  /\ UNCHANGED clsVars
  /\ UNCHANGED reminders

\* check_distraction_and_notify once send_notification has returned: the
\* counter is reset after the third notification
AfterSendNotification(p) ==
  /\ req' = [req EXCEPT ![p] = Idle]
  /\ notification_counters' =
       IF req[p].count = 3
       THEN [notification_counters EXCEPT ![req[p].username] = 0]
       ELSE notification_counters

\* send_notification: insert_one returns or raises; when it raises the
\* exception leaves check_distraction_and_notify as well
send_notification(p) ==
  /\ req[p].pc = "insert_one"
  /\ LET r == req[p] IN
     \E ok \in BOOLEAN :
       IF ok
       THEN /\ notifications' =
                 [notifications EXCEPT
                    !.last = [username |-> r.username, session_id |-> r.session_id,
                              window_title |-> r.window_title, created_at |-> now,
                              distraction_count |-> r.count,
                              repeated_notification_count |-> 0,
                              tier |-> IF r.count <= 2 THEN "standard" ELSE "escalated",
                              stored |-> TRUE, k |-> 0],
                    !.built[r.session_id] = @ + 1,
                    !.stored[r.session_id] = @ + 1]
            /\ IF active_connections[r.username] # 0
               THEN /\ req' = [req EXCEPT ![p].pc = "send_text",
                                          ![p].ws = active_connections[r.username]]
                    /\ UNCHANGED notification_counters
               ELSE AfterSendNotification(p)
       ELSE /\ req' = [req EXCEPT ![p] = Idle]
            /\ UNCHANGED << notifications, notification_counters >>
  /\ UNCHANGED << clock, user_distraction_tracking, sessions, pushed, active_connections,
                  ws_open, window_monitor, hist, evlog, batch >>
  /\ UNCHANGED clsVars
  /\ UNCHANGED reminders

\* send_notification: send_text returns, or raises and the exception is printed
send_notification_text(p) ==
  /\ req[p].pc = "send_text"
  /\ req[p].kind = "cdn"
  /\ \E ok \in BOOLEAN :
       /\ ok => req[p].ws \in ws_open
       /\ pushed' = IF ok THEN pushed + 1 ELSE pushed
       /\ ws_open' = IF ok THEN ws_open ELSE ws_open \ {req[p].ws}
  /\ AfterSendNotification(p)
  /\ UNCHANGED << clock, user_distraction_tracking, sessions, notifications,
                  active_connections, window_monitor, hist, evlog, batch >>
  /\ UNCHANGED clsVars
  /\ UNCHANGED reminders

InitEarlier ==
  /\ AppClassifierIdle
  /\ AppState(TRUE)
  /\ hist = NoHistory("plain")

NextEarlier ==
  \/ \E p \in Procs, sid \in SessionIds, title \in WindowTitles,
        c \in ReportedClassifications :
       check_distraction_and_notify(p, sid, title, c, MaxInflight)
  \/ \E p \in Procs : send_notification(p)
  \/ \E p \in Procs : send_notification_text(p)

SpecEarlier == InitEarlier /\ [][NextEarlier]_vars

(***************************************************************************)
(* The dashboard's websockets: connect, disconnect and notify              *)
(***************************************************************************)
\* at most MaxSockets websockets are open or still referred to
MaxSockets == 2
Sockets == 1..MaxSockets

\* the websocket objects that something still refers to
Referenced ==
  ws_open \cup {active_connections[u] : u \in Users} \cup {req[p].ws : p \in Procs}

\* /ws/{username}: await websocket.accept(), then
\* active_connections[username] = websocket
websocket_endpoint(username) ==
  /\ \E websocket \in Sockets :
       /\ websocket \notin Referenced
       /\ \A w \in Sockets : w < websocket => w \in Referenced
       /\ ws_open' = ws_open \cup {websocket}
       /\ active_connections' = [active_connections EXCEPT ![username] = websocket]
  /\ UNCHANGED << clock, user_distraction_tracking, sessions, notifications, pushed,
                  window_monitor, req, hist, evlog, batch >>
  /\ UNCHANGED clsVars
  /\ UNCHANGED reminders
  /\ UNCHANGED notification_counters

\* /ws/{username}: receive_text raises WebSocketDisconnect (or another
\* exception): if username in active_connections: del active_connections[username]
WebSocketDisconnect(username, websocket) ==
  /\ websocket \in ws_open
  /\ ws_open' = ws_open \ {websocket}
  /\ active_connections' = [active_connections EXCEPT ![username] = 0]
  /\ UNCHANGED << clock, user_distraction_tracking, sessions, notifications, pushed,
                  window_monitor, req, hist, evlog, batch >>
  /\ UNCHANGED clsVars
  /\ UNCHANGED reminders
  /\ UNCHANGED notification_counters

\* the dashboard is not connected yet; every websocket is one of alice's
InitSockets ==
  /\ AppClassifierIdle
  /\ AppState(FALSE)
  /\ hist = NoHistory("plain")

NextSockets ==
  \/ \E u \in Users : websocket_endpoint(u)
  \/ \E u \in Users, ws \in Sockets : WebSocketDisconnect(u, ws)
  \/ \E p \in Procs, u \in Users, sid \in SessionIds, title \in WindowTitles :
       start_window_monitoring(p, u, sid, title, MaxInflight)
  \/ \E p \in Procs : store_notification(p)
  \/ \E p \in Procs : push_notification(p)

SpecSockets == InitSockets /\ [][NextSockets]_vars

(***************************************************************************)
(* The reminder scheduler                                                  *)
(***************************************************************************)
\* today's plan has at most MaxReminders reminders
MaxReminders == 2

\* the clock passes at most MaxMinutes minute boundaries
MaxMinutes == 2

\* the minute of the day at which the process is started: 09:00
StartMinute == 540

DigitChars == << "0", "1", "2", "3", "4", "5", "6", "7", "8", "9" >>

IsDigits(s) == \A i \in 1..Len(s) : \E d \in 1..10 : SubSeq(s, i, i) = DigitChars[d]

DigitValue(c) == (CHOOSE d \in 1..10 : DigitChars[d] = c) - 1

RECURSIVE IntValue(_)
IntValue(s) ==
  IF Len(s) = 0 THEN 0
  ELSE 10 * IntValue(SubSeq(s, 1, Len(s) - 1)) + DigitValue(SubSeq(s, Len(s), Len(s)))

\* datetime.utcnow().strftime("%H:%M") in minute m of the day
FormatTime(m) ==
  DigitChars[((m \div 60) \div 10) + 1] \o DigitChars[((m \div 60) % 10) + 1] \o ":" \o
  DigitChars[((m % 60) \div 10) + 1] \o DigitChars[((m % 60) % 10) + 1]

\* datetime.strptime(s, "%H:%M") does not raise: one or two digits, a colon,
\* one or two digits, an hour below 24 and a minute below 60
ValidTime(s) ==
  \E i \in 2..3 :
    /\ i < Len(s)
    /\ Len(s) - i \in 1..2
    /\ SubSeq(s, i, i) = ":"
    /\ IsDigits(SubSeq(s, 1, i - 1))
    /\ IsDigits(SubSeq(s, i + 1, Len(s)))
    /\ IntValue(SubSeq(s, 1, i - 1)) < 24
    /\ IntValue(SubSeq(s, i + 1, Len(s))) < 60

\* "Clean and validate time format": strip, truncate to five characters
CleanedTime(reminder_time) ==
  LET stripped == Strip(reminder_time)
  IN IF Len(stripped) > 5 THEN SubSeq(stripped, 1, 5) ELSE stripped

\* the reminder is skipped with continue: its time does not parse
InvalidTime(reminder) ==
  reminder.time # "" /\ ~ValidTime(CleanedTime(reminder.time))

\* not is_completed and reminder_time == current_time
SendsReminder(reminder, current_time) ==
  /\ ~InvalidTime(reminder)
  /\ ~reminder.completed
  /\ (IF reminder.time = "" THEN "" ELSE CleanedTime(reminder.time)) = current_time

\* the "time" fields the dashboard stores, and one that was typed by hand
ReminderTimes == {"09:01", "09:02", "09:01:30", "soon"}

Reminders == [time : ReminderTimes, completed : BOOLEAN]

Plans == UNION {[1..n -> Reminders] : n \in 1..MaxReminders}

\* @app.on_event("startup"): scheduler.start(), then
\* scheduler.add_job(..., id="reminder_check", replace_existing=True); the cron
\* triggers fire from the next minute boundary on
startup_event ==
  /\ ~reminders.running
  /\ reminders' = [reminders EXCEPT !.running = TRUE,
                                    !.jobs = @ \cup {"reminder_check"}]
  /\ UNCHANGED appVars
  /\ UNCHANGED clsVars
  /\ UNCHANGED notification_counters

\* the clock reaches the next minute: CronTrigger(minute="*") makes every job
\* of the running scheduler due
NextMinute ==
  /\ reminders.minute < StartMinute + MaxMinutes
  /\ reminders.due = {}
  /\ reminders' = [reminders EXCEPT
                     !.minute = @ + 1,
                     !.fired = reminders.running,
                     !.due = IF reminders.running THEN reminders.jobs ELSE {},
                     !.sent = [i \in DOMAIN reminders.plan |-> 0]]
  /\ UNCHANGED appVars
  /\ UNCHANGED clsVars
  /\ UNCHANGED notification_counters

\* one run of the job: send_reminder_notification is called for every reminder
\* of the plan that is not completed and whose time is the current time
check_and_send_reminders(job) ==
  /\ job \in reminders.due
  /\ LET current_time == FormatTime(reminders.minute)
     IN reminders' = [reminders EXCEPT
                        !.due = @ \ {job},
                        !.sent = [i \in DOMAIN reminders.plan |->
                                    IF SendsReminder(reminders.plan[i], current_time)
                                    THEN reminders.sent[i] + 1 ELSE reminders.sent[i]]]
  /\ UNCHANGED appVars
  /\ UNCHANGED clsVars
  /\ UNCHANGED notification_counters

\* the module has been imported at 09:00 and today's plan is in the database
InitReminders ==
  /\ AppClassifierIdle
  /\ clock = [now |-> 0, ticks |-> 0]
  /\ user_distraction_tracking = [u \in Users |-> NoRecord]
  /\ sessions = [s \in SessionIds |-> NoSession]
  /\ notifications = [last |-> NoNotification, built |-> [s \in SessionIds |-> 0],
                      stored |-> [s \in SessionIds |-> 0]]
  /\ pushed = 0
  /\ active_connections = [u \in Users |-> 0]
  /\ ws_open = {}
  /\ window_monitor = [last_window_title |-> ""]
  /\ req = [p \in Procs |-> Idle]
  /\ hist = NoHistory("plain")
  /\ evlog = << >>
  /\ batch = NoBatch
  /\ notification_counters = [u \in Users |-> 0]
  /\ \E plan \in Plans :
       reminders = [NoReminders EXCEPT !.minute = StartMinute, !.plan = plan,
                                       !.sent = [i \in DOMAIN plan |-> 0]]

NextReminders ==
  \/ startup_event
  \/ NextMinute
  \/ \E job \in {"reminder_checker", "reminder_check"} : check_and_send_reminders(job)

SpecReminders == InitReminders /\ [][NextReminders]_vars

(***************************************************************************)
(* Two users of the one server process                                     *)
(***************************************************************************)
\* alice and a second user
Tenants == Users \cup {"bob"}

\* the process has just started; alice has a session of an earlier run and her
\* dashboard is connected, bob has registered and has no session yet
InitTenants ==
  /\ AppClassifierIdle
  /\ clock = [now |-> 0, ticks |-> 0]
  /\ user_distraction_tracking = [u \in Tenants |-> NoRecord]
  /\ sessions = [s \in SessionIds |->
                   IF s = 1 THEN [exists |-> TRUE, username |-> "alice",
                                  distraction_count |-> 0, completed |-> FALSE]
                   ELSE NoSession]
  /\ notifications = [last |-> NoNotification, built |-> [s \in SessionIds |-> 0],
                      stored |-> [s \in SessionIds |-> 0]]
  /\ pushed = 0
  /\ active_connections = [u \in Tenants |-> IF u = "alice" THEN 1 ELSE 0]
  /\ ws_open = {1}
  /\ window_monitor = [last_window_title |-> ""]
  /\ req = [p \in Procs |-> Idle]
  /\ hist = [NoHistory("plain") EXCEPT !.fired = [u \in Tenants |-> 0]]
  /\ evlog = << >>
  /\ batch = NoBatch
  /\ notification_counters = [u \in Tenants |-> 0]
  /\ reminders = NoReminders

NextTenants ==
  \/ Wait
  \/ \E u \in Tenants : create_focus_session(u, 1)
  \/ \E p \in Procs, sid \in SessionIds, title \in WindowTitles :
       monitor_activity_realtime(p, sid, title, 1)
  \/ \E p \in Procs, u \in Tenants, sid \in SessionIds, title \in WindowTitles :
       check_current_window(p, u, sid, title, 1)
  \/ \E p \in Procs : store_notification(p)
  \/ \E p \in Procs : push_notification(p)

SpecTenants == InitTenants /\ [][NextTenants]_vars

\* the step handles (part of) an activity, session or check-window request
\* for user a
HandlesRequestFor(a) ==
  \/ create_focus_session(a, 1)
  \/ \E p \in Procs, sid \in SessionIds, title \in WindowTitles :
       /\ sessions[sid].exists
       /\ sessions[sid].username = a
       /\ \/ monitor_activity_realtime(p, sid, title, 1)
          \/ check_current_window(p, a, sid, title, 1)
  \/ \E p \in Procs :
       /\ req[p].pc # "idle"
       /\ req[p].username = a
       /\ (store_notification(p) \/ push_notification(p))

(***************************************************************************)
(* Properties of the notification pipeline                                 *)
(***************************************************************************)

\* a step that builds a notification
Builds == notifications'.built # notifications.built

\* C1: any two distraction notifications fired to the same user, through
\* whichever entry point, are more than the throttle interval (2 s) apart
C1_NotificationsThrottled ==
  [][(/\ Builds
      /\ notifications.last.stored
      /\ notifications'.last.stored
      /\ notifications'.last.username = notifications.last.username)
     => notifications'.last.created_at - notifications.last.created_at
          > NOTIFICATION_THROTTLE_SECONDS]_vars

IsRequest(e) == e.kind # "notify"

IsNotify(e) == e.kind = "notify"

\* the history from its j-th entry on is a streak: three distracting reports
\* of one window in one session, 3 s apart, that found no tracking record or
\* one that the creation of the session had just reset, and nothing else
StreakFrom(j) ==
  LET tail == SubSeq(evlog, j, Len(evlog))
      rq == SelectSeq(tail, IsRequest)
  IN /\ evlog[j].kind = "ma"
     /\ \/ ~evlog[j].had_record
        \/ /\ j > 1
           /\ evlog[j - 1].kind = "create"
           /\ evlog[j - 1].session_id = evlog[j].session_id
     /\ Len(rq) = 3
     /\ \A i \in 1..3 :
          /\ rq[i].kind = "ma"
          /\ rq[i].is_distraction
          /\ rq[i].window_title = rq[1].window_title
          /\ rq[i].session_id = rq[1].session_id
          /\ rq[i].t = rq[1].t + 3 * (i - 1)

\* C2: from a fresh tracker state, three distracting events on the same
\* window 3 s apart fire exactly three notifications, which carry
\* repeated_notification_count 0, 1 and 2 in that order
C2_StreakFiresThree ==
  \A j \in 1..Len(evlog) :
    (AllIdle /\ StreakFrom(j)) =>
      LET nt == SelectSeq(SubSeq(evlog, j, Len(evlog)), IsNotify)
      IN /\ Len(nt) = 3
         /\ \A i \in 1..3 : nt[i].rep = i - 1

\* C3: the k-th notification fired since the last reset carries the standard
\* message for k <= 2 and the escalated one for k >= 3, k being the tracker
\* count after its increment for this notification
C3_TierByOrdinal ==
  LET n == notifications.last IN
  n # NoNotification =>
    /\ n.distraction_count = n.k
    /\ n.tier = IF n.k <= 2 THEN "standard" ELSE "escalated"

C3_Witness ==
  /\ notifications.last.k = 3
  /\ notifications.last.tier = "escalated"
  /\ notifications.last.stored

\* C4: create_focus_session, and a monitor-activity event whose session_id
\* differs from the tracked one, set count and repeated_notification_count to
\* 0 and record the new session_id and last_reset; the first notification of
\* a session has distraction_count 1
C4_SessionBoundaryReset ==
  [][/\ \A u \in Users :
          create_focus_session(u, 1) =>
            LET rec == user_distraction_tracking'[u] IN
            /\ rec.count = 0
            /\ rec.repeated_notification_count = 0
            /\ ~sessions[rec.session_id].exists /\ sessions'[rec.session_id].exists
            /\ rec.last_reset = now
     /\ \A p \in Procs, sid \in SessionIds, title \in WindowTitles :
          (/\ sessions[sid].exists
           /\ user_distraction_tracking[sessions[sid].username].present
           /\ user_distraction_tracking[sessions[sid].username].session_id # sid
           /\ monitor_activity_realtime(p, sid, title, 1)) =>
            LET rec == user_distraction_tracking'[sessions[sid].username] IN
            /\ rec.count = 0
            /\ rec.repeated_notification_count = 0
            /\ rec.session_id = sid
            /\ rec.last_reset = now
     /\ (Builds /\ notifications.built[notifications'.last.session_id] = 0) =>
          notifications'.last.distraction_count = 1]_vars

C4_Witness ==
  /\ notifications.built[1] >= 1
  /\ notifications.last.session_id = 2
  /\ notifications.last.distraction_count = 1
  /\ user_distraction_tracking["alice"].session_id = 2

\* one request of a batch run alone on the record rec at time t
SerialStep(rec, r, t) ==
  LET dist == IsDistraction(r.window_title)
      sends == TrackSends(rec, r.session_id, r.window_title, dist, t)
      r1 == Track(rec, r.session_id, r.window_title, dist, t)
      r2 == IF sends
            THEN AfterNotification(BeginNotification(r1, r.window_title, r.session_id, t))
            ELSE r1
  IN [rec |-> r2,
      notifs |-> IF sends
                 THEN << [count |-> r2.count, rep |-> r2.repeated_notification_count] >>
                 ELSE << >>]

RECURSIVE SerialRun(_, _, _)
\* the requests rs run one after the other
SerialRun(rec, rs, t) ==
  IF rs = << >> THEN [rec |-> rec, notifs |-> << >>]
  ELSE LET h == SerialStep(rec, Head(rs), t)
           rest == SerialRun(h.rec, Tail(rs), t)
       IN [rec |-> rest.rec, notifs |-> h.notifs \o rest.notifs]

Occurrences(seq, x) == Cardinality({i \in 1..Len(seq) : seq[i] = x})

SameNotifications(a, b) ==
  /\ Len(a) = Len(b)
  /\ \A i \in 1..Len(a) : Occurrences(a, a[i]) = Occurrences(b, a[i])

\* C5: when monitor-activity requests of one user overlap, the final tracking
\* record and the notifications' distraction_count and
\* repeated_notification_count equal those of some serial execution
C5_Serializable ==
  (AllIdle /\ Len(batch.reqs) >= 2) =>
    \E order \in Permutations(1..Len(batch.reqs)) :
      LET run == SerialRun(batch.start,
                           [i \in 1..Len(batch.reqs) |-> batch.reqs[order[i]]],
                           batch.t)
          rec == user_distraction_tracking["alice"]
      IN /\ rec.count = run.rec.count
         /\ rec.repeated_notification_count = run.rec.repeated_notification_count
         /\ rec.last_notification_time = run.rec.last_notification_time
         /\ rec.last_distracting_window = run.rec.last_distracting_window
         /\ rec.last_distraction_active = run.rec.last_distraction_active
         /\ SameNotifications(batch.notifs, run.notifs)

\* C6: every notification decision that fires increments the session's
\* persisted distraction_count by one and produces one notification record,
\* on every entry point and also when storing fails
C6_EveryDecisionPersisted ==
  AllIdle =>
    \A s \in SessionIds :
      /\ sessions[s].distraction_count = notifications.built[s]
      /\ notifications.stored[s] = notifications.built[s]

\* C10: in monitor_activity_realtime a distracting event for the tracked
\* session that arrives at most 2 s after last_notification_time fires no
\* notification and leaves the whole tracking record unchanged
C10_ThrottledEventChangesNothing ==
  [][\A p \in Procs, sid \in SessionIds, title \in WindowTitles :
       (/\ sessions[sid].exists
        /\ IsDistraction(title)
        /\ user_distraction_tracking[sessions[sid].username].present
        /\ user_distraction_tracking[sessions[sid].username].session_id = sid
        /\ now - user_distraction_tracking[sessions[sid].username].last_notification_time
             <= 2
        /\ monitor_activity_realtime(p, sid, title, 1))
       => /\ user_distraction_tracking' = user_distraction_tracking
          /\ req' = req
          /\ notifications' = notifications]_vars

C10_Witness ==
  /\ hist.last.kind = "ma"
  /\ hist.last.is_distraction
  /\ hist.last.tracked
  /\ hist.last.elapsed = 2
  /\ ~hist.last.fired
  /\ user_distraction_tracking["alice"].count >= 1

\* C11: in monitor_activity_realtime every distracting event that arrives more
\* than 2 s after last_notification_time fires a notification and sets
\* last_notification_time to now; a title other than last_distracting_window
\* becomes last_distracting_window with repeated_notification_count 0, the
\* same title adds exactly 1 to repeated_notification_count
C11_ElapsedEventFires ==
  [][\A p \in Procs, sid \in SessionIds, title \in WindowTitles :
       (/\ sessions[sid].exists
        /\ IsDistraction(title)
        /\ user_distraction_tracking[sessions[sid].username].present
        /\ now - user_distraction_tracking[sessions[sid].username].last_notification_time
             > 2
        /\ monitor_activity_realtime(p, sid, title, 1))
       => LET rec == user_distraction_tracking[sessions[sid].username]
              rec2 == user_distraction_tracking'[sessions[sid].username]
          IN /\ req'[p].pc = "get_user"
             /\ rec2.last_notification_time = now
             /\ title # rec.last_distracting_window =>
                  /\ rec2.repeated_notification_count = 0
                  /\ rec2.last_distracting_window = title
             /\ title = rec.last_distracting_window =>
                  rec2.repeated_notification_count = rec.repeated_notification_count + 1]_vars

\* C12: after monitor_activity_realtime has processed an event classified as a
\* non-distraction, the user's last_distracting_window is empty,
\* repeated_notification_count is 0 and last_distraction_active is false,
\* whatever tracking record the event found
C12_NonDistractionClears ==
  [][\A p \in Procs, sid \in SessionIds, title \in WindowTitles :
       (/\ sessions[sid].exists
        /\ ~IsDistraction(title)
        /\ monitor_activity_realtime(p, sid, title, 1))
       => LET rec2 == user_distraction_tracking'[sessions[sid].username]
          IN /\ rec2.last_distracting_window = ""
             /\ rec2.repeated_notification_count = 0
             /\ ~rec2.last_distraction_active]_vars

\* C13: once the first event of a (username, session_id) pair that is
\* classified as a distraction has been processed, the user's
\* last_distraction_active is true (distraction-status reports "distracted"),
\* however long ago the tracking record was created
C13_FirstDistractionActivates ==
  (/\ hist.events = 1
   /\ hist.last.kind = "ma"
   /\ hist.last.is_distraction
   /\ AllIdle)
  => \A u \in Users :
       user_distraction_tracking[u].present =>
         user_distraction_tracking[u].last_distraction_active

\* C14: whenever a monitor-activity event arrives more than one hour after the
\* user's last_reset, handling it resets the tracker: last_reset becomes now,
\* repeated_notification_count 0, and count 0 (1 when the event itself fires a
\* notification) - whether the event is distracting or not, notified or not
C14_HourlyReset ==
  [][\A p \in Procs, sid \in SessionIds, title \in WindowTitles :
       (/\ sessions[sid].exists
        /\ user_distraction_tracking[sessions[sid].username].present
        /\ now - user_distraction_tracking[sessions[sid].username].last_reset
             > RESET_AFTER_SECONDS
        /\ monitor_activity_realtime(p, sid, title, 1))
       => LET rec2 == user_distraction_tracking'[sessions[sid].username]
          IN /\ rec2.last_reset = now
             /\ rec2.repeated_notification_count = 0
             /\ rec2.count = IF req'[p].pc = "get_user" THEN 1 ELSE 0]_vars

\* C15: each user's count is never negative; a step changes it only by
\* resetting it to 0 or, while handling an event classified as a distraction,
\* by adding exactly 1 (to the count it found, or to the count it has just
\* reset); handling a non-distracting event changes it only through the
\* session-change reset of monitor_activity_realtime
C15_CountChanges ==
  [][\A u \in Users :
       LET c == user_distraction_tracking[u].count
           c2 == user_distraction_tracking'[u].count
           handles == hist'.events = hist.events + 1
       IN /\ c2 >= 0
          /\ c2 # c =>
               \/ c2 = 0
               \/ /\ handles
                  /\ hist'.last.is_distraction
                  /\ c2 = c + 1 \/ c2 = 1
          /\ (/\ c2 # c
              /\ handles
              /\ hist'.last.kind \in {"ma", "cw", "sm"}
              /\ ~hist'.last.is_distraction) =>
               /\ hist'.last.kind = "ma"
               /\ ~hist'.last.tracked
               /\ c2 = 0]_vars

\* a notification of session 2 was counted, then a non-distracting event of
\* session 1 has reset the count
C15_Witness ==
  /\ hist.last.kind = "ma"
  /\ ~hist.last.is_distraction
  /\ ~hist.last.tracked
  /\ notifications.built[2] >= 1
  /\ user_distraction_tracking["alice"].session_id = 1
  /\ user_distraction_tracking["alice"].count = 0

\* C16: completing a session (PUT /sessions/{id}/complete) resets the owning
\* user's count to 0: distraction-stats reports current_distraction_count 0
\* right after the completion
C16_CompletionResetsCount ==
  [][\A sid \in SessionIds :
       complete_session(sid, 1) =>
         /\ user_distraction_tracking'[sessions[sid].username].count = 0
         /\ get_distraction_stats(sessions[sid].username)'.current_distraction_count = 0]_vars

\* C17: delivery is store-then-push and fire-and-forget: a notification is
\* pushed over the websocket only after its record was stored; when storing
\* fails the request returns and nothing is pushed; a failed push is not
\* retried, removes no stored record, and the request still returns
C17_StoreThenPush ==
  [][/\ pushed' # pushed =>
          /\ pushed' = pushed + 1
          /\ notifications.last.stored
          /\ \E p \in Procs :
               /\ req[p].pc = "send_text"
               /\ req[p].username = notifications.last.username
               /\ req[p].k = notifications.last.k
     /\ \A p \in Procs :
          (store_notification(p) /\ ~notifications'.last.stored) =>
            /\ req'[p].pc = "idle"
            /\ pushed' = pushed
     /\ \A p \in Procs :
          (push_notification(p) /\ pushed' = pushed) =>
            /\ req'[p].pc = "idle"
            /\ notifications' = notifications
     /\ \A s \in SessionIds : notifications'.stored[s] >= notifications.stored[s]]_vars

\* a stored notification whose push failed: the connection is gone, nothing
\* was pushed, the record is still stored and the request has returned
C17_Witness ==
  /\ AllIdle
  /\ active_connections["alice"] = 0
  /\ pushed = 0
  /\ notifications.last.stored
  /\ notifications.stored[notifications.last.session_id] >= 1

\* C23: handling an event classified as a non-distraction - on
\* monitor-activity, activity/log-only, start-monitoring or check-window -
\* starts, stores and pushes no notification and increments neither a tracker
\* count nor a persisted distraction_count; whatever is stored, pushed or
\* counted belongs to a request for a distracting window
C23_OnlyDistractionsNotify ==
  [][/\ (/\ hist'.events = hist.events + 1
         /\ hist'.last.kind \in {"ma", "lo", "cw", "sm"}
         /\ ~hist'.last.is_distraction) =>
          /\ req' = req
          /\ notifications' = notifications
          /\ pushed' = pushed
          /\ \A u \in Users :
               user_distraction_tracking'[u].count <= user_distraction_tracking[u].count
          /\ \A s \in SessionIds :
               sessions'[s].distraction_count = sessions[s].distraction_count
     /\ (\/ notifications' # notifications
         \/ pushed' # pushed
         \/ \E s \in SessionIds :
              sessions'[s].distraction_count > sessions[s].distraction_count
         \/ \E u \in Users :
              user_distraction_tracking'[u].count > user_distraction_tracking[u].count) =>
          \E p \in Procs :
            /\ req[p].pc # "idle" \/ req'[p].pc # "idle"
            /\ IsDistraction(IF req[p].pc # "idle" THEN req[p].window_title
                             ELSE req'[p].window_title)]_vars

\* after a stored notification a non-distracting event was logged by
\* activity/log-only, and nothing has been added
C23_Witness ==
  /\ hist.last.kind = "lo"
  /\ ~hist.last.is_distraction
  /\ AllIdle
  /\ notifications.stored[1] = 1
  /\ notifications.built[1] = 1
  /\ user_distraction_tracking["alice"].count = 1

\* C24: in the earlier revision every call of check_distraction_and_notify
\* with classification entertainment sends a notification - standard for the
\* 1st and 2nd of a cycle, escalated for the 3rd - and notification_counters
\* of the user never exceeds 3, for every interleaving of calls for the same
\* user and also when send_notification raises
C24_CycleOfThree ==
  [][\A p \in Procs, sid \in SessionIds, title \in WindowTitles :
       check_distraction_and_notify(p, sid, title, "entertainment", MaxInflight) =>
         /\ notification_counters'[sessions[sid].username] <= 3
         /\ req'[p].pc = "insert_one"
         /\ req'[p].count \in 1..3]_vars

\* C25: the send rule of the window monitor behind check-window: a poll sends
\* the activity whenever the active title differs from last_window_title;
\* while the title is unchanged it sends on every poll when the title is a
\* distraction (so a notification is started each time) and sends nothing
\* when it is not
C25_MonitorSendRule ==
  [][\A p \in Procs, u \in Users, sid \in SessionIds, title \in WindowTitles :
       (/\ req[p].pc = "idle"
        /\ check_current_window(p, u, sid, title, 1)) =>
         /\ IsDistraction(title) => req'[p].pc = "get_user"
         /\ (~IsDistraction(title) /\ title # window_monitor.last_window_title) =>
              window_monitor'.last_window_title = title
         /\ (~IsDistraction(title) /\ title = window_monitor.last_window_title) =>
              /\ req' = req
              /\ window_monitor' = window_monitor
              /\ user_distraction_tracking' = user_distraction_tracking]_vars

\* C26: handling a non-distracting monitor-activity event of the tracked
\* session never changes last_notification_time: a productive event does not
\* restart the throttle timer
C26_ProductiveKeepsTimer ==
  [][\A p \in Procs, sid \in SessionIds, title \in WindowTitles :
       (/\ sessions[sid].exists
        /\ ~IsDistraction(title)
        /\ user_distraction_tracking[sessions[sid].username].present
        /\ user_distraction_tracking[sessions[sid].username].session_id = sid
        /\ monitor_activity_realtime(p, sid, title, 1))
       => user_distraction_tracking'[sessions[sid].username].last_notification_time
            = user_distraction_tracking[sessions[sid].username].last_notification_time]_vars

\* C27: a user whose last distraction is active has a distracting window on
\* record: last_distraction_active = true implies last_distracting_window is
\* non-empty, so a user is idle after a new session has started
C27_NewSessionIdle ==
  \A u \in Users :
    (/\ user_distraction_tracking[u].present
     /\ user_distraction_tracking[u].last_distraction_active)
    => user_distraction_tracking[u].last_distracting_window # ""

\* C28: whenever a websocket of a user is open, active_connections[username]
\* refers to an open websocket: neither the disconnect nor the send failure of
\* an older connection removes the registration of a newer one
C28_OpenSocketRegistered ==
  \A u \in Users :
    ws_open # {} => active_connections[u] \in ws_open

\* C29: once the jobs of the running scheduler have run in a minute, each
\* reminder of today's plan that is not completed and whose time equals the
\* current HH:MM has produced exactly one reminder notification in that
\* minute, and every other reminder none
C29_OneReminderPerMinute ==
  (reminders.fired /\ reminders.due = {}) =>
    \A i \in DOMAIN reminders.plan :
      reminders.sent[i] =
        IF /\ ~reminders.plan[i].completed
           /\ reminders.plan[i].time = FormatTime(reminders.minute)
        THEN 1 ELSE 0

\* C30: handling a request for user a changes neither the tracking record
\* of another user b nor whether b's next check-window request logs its
\* activity (and so whether it fires a notification)
C30_UserIsolation ==
  [][\A a, b \in Tenants :
       (/\ a # b
        /\ \E sid \in SessionIds : sessions[sid].exists /\ sessions[sid].username = b
        /\ HandlesRequestFor(a))
       => /\ user_distraction_tracking'[b] = user_distraction_tracking[b]
          /\ \A title \in WindowTitles :
               should_send_activity(window_monitor', title)
                 = should_send_activity(window_monitor, title)]_vars

(***************************************************************************)
(* Properties of the classifier                                            *)
(***************************************************************************)

\* the title matches a whitelisted development-tool or product pattern
Whitelisted(title) ==
  ContainsAny(Lower(title), {"cursor", "code", "visual studio", "focusguard",
                             ".py", ".js", ".jsx", ".ts", ".tsx", ".html", ".css"})

\* C7: a title that matches a whitelisted development-tool or product
\* pattern is never classified as a distraction, whatever else it contains,
\* in BERT mode and in fallback mode
C7_WhitelistOverrides ==
  (/\ cls.entry \in {"classify_content", "get_detailed_analysis"}
   /\ Whitelisted(cls_in.title))
  => (~cls.result.error /\ ~cls.result.is_distraction)

\* C8: on every return path of the classifier is_distraction is true exactly
\* when the returned category is entertainment, social_media, gaming or
\* streaming
C8_DistractionIffCategory ==
  /\ (cls.entry # "none" /\ ~cls.result.error) =>
       (cls.result.is_distraction <=>
          cls.result.category \in {"entertainment", "social_media", "gaming", "streaming"})
  /\ ens.arity = 3 =>
       (ens.is_distraction <=>
          ens.category \in {"entertainment", "social_media", "gaming", "streaming"})

C8_Witness ==
  /\ cls.entry = "classify_content"
  /\ ~classifier.fallback_mode
  /\ cls.result.category = "social_media"
  /\ cls.result.is_distraction

\* C9: for a title whose trimmed length is below 3 every classification
\* entry point returns exactly (neutral, 0.5, false) and never an error
C9_ShortTitleNeutral ==
  (cls.entry # "none" /\ Len(Strip(cls_in.title)) < 3)
  => cls.result = Result("neutral", 50, FALSE)

\* C18: whenever the embedding is unavailable (the text model did not load)
\* or encode() throws, classify_content returns exactly what the keyword
\* classifier returns for the same title and does not raise - also when the
\* classifier is not in fallback_mode
C18_EmbeddingFailureFallsBack ==
  (/\ cls.entry = "classify_content"
   /\ ~(classifier.text_model /\ cls_in.oracle.encode_ok))
  => /\ ~cls.result.error
     /\ cls.result = _fallback_classify(cls_in.title, TRUE)

\* C19: for every title that contains an educational keyword together with
\* an entertainment cue, the keyword classifier returns educational, not a
\* distraction, with confidence at least 0.8 - on the chrome and the
\* non-chrome branch, for YouTube and for other sites, in both revisions
C19_EducationalPrecedence ==
  (/\ ContainsAny(Lower(cls_in.title), educational_keywords)
   /\ ContainsAny(Lower(cls_in.title), entertainment_keywords))
  => /\ cls.entry = "_fallback_classify" =>
          /\ cls.result.category = "educational"
          /\ ~cls.result.is_distraction
          /\ cls.result.confidence >= 80
     /\ cls.entry = "classify_with_patterns" =>
          /\ cls.result.category = "educational"
          /\ cls.result.confidence >= 80

\* the three votes ensemble_classify collects for the drawn title: AI, pattern,
\* linguistic
Voters ==
  << classify_with_ai(cls_in.title, cls_in.oracle.ai),
     classify_with_patterns(cls_in.title),
     classify_with_linguistic_features(cls_in.title, cls_in.oracle.ling) >>

\* C20: when ensemble_classify has its three voters vote, it returns a
\* category no other category has more votes than; when all three voters
\* disagree it returns the first (AI) voter's category; and the confidence is
\* the sum of the confidences of exactly the voters for the returned category,
\* divided by their number
C20_MajorityVote ==
  (cls.entry = "log_activity" /\ ens.arity = 3) =>
    LET v == Voters
        cats == << v[1].category, v[2].category, v[3].category >>
        VotesFor(c) == {i \in 1..3 : cats[i] = c}
        won == VotesFor(ens.category)
    IN /\ won # {}
       /\ \A i \in 1..3 : Cardinality(VotesFor(cats[i])) <= Cardinality(won)
       /\ (\A i, j \in 1..3 : i # j => cats[i] # cats[j]) => ens.category = cats[1]
       /\ ens.conf_n = Cardinality(won)
       /\ ens.conf_sum = (IF 1 \in won THEN v[1].confidence ELSE 0)
                         + (IF 2 \in won THEN v[2].confidence ELSE 0)
                         + (IF 3 \in won THEN v[3].confidence ELSE 0)

\* the three voters disagreed and the AI voter's category was returned
C20_Witness ==
  /\ cls.entry = "log_activity"
  /\ ens.arity = 3
  /\ cls_in.oracle.ai # Failed
  /\ cls_in.oracle.ling # Failed
  /\ cls_in.oracle.ai.category # cls_in.oracle.ling.category
  /\ ens.category = cls_in.oracle.ai.category
  /\ ens.conf_n = 1
  /\ LET v == Voters
     IN v[2].category \notin {v[1].category, v[3].category}

\* C21: when a voter of the ensemble fails (spaCy missing or raising, TextBlob
\* raising) it contributes no vote: the ensemble returns the category and the
\* mean confidence of the vote taken over the remaining voters only
C21_FailedVoterAbstains ==
  (/\ cls.entry = "log_activity"
   /\ ens.arity = 3
   /\ cls_in.oracle.ai = Failed \/ cls_in.oracle.ling = Failed) =>
    LET pattern == classify_with_patterns(cls_in.title)
        remaining ==
          (IF cls_in.oracle.ai = Failed THEN << >> ELSE << cls_in.oracle.ai >>)
          \o << pattern >>
          \o (IF cls_in.oracle.ling = Failed THEN << >> ELSE << cls_in.oracle.ling >>)
        winner == MostVoted([i \in 1..Len(remaining) |-> remaining[i].category])
        winning == SelectSeq(remaining, LAMBDA x : x.category = winner)
    IN /\ ens.category = winner
       /\ ens.conf_sum * Len(winning) =
            SumSeq([i \in 1..Len(winning) |-> winning[i].confidence]) * ens.conf_n

\* C22: classify_with_patterns, on a title with e entertainment, d educational
\* and p productive matches, returns the group whose count is strictly greater
\* than both others with confidence min(0.9, 0.5 + 0.1 * count), and
\* (neutral, 0.5) when the maximum is shared or all counts are 0; the
\* confidence is always within [0.5, 0.9]
C22_StrictMaximum ==
  cls.entry = "classify_with_patterns" =>
    LET e == cls_in.counts.e
        d == cls_in.counts.d
        p == cls_in.counts.p
        capped(n) == IF 50 + 10 * n > 90 THEN 90 ELSE 50 + 10 * n
    IN /\ (e > d /\ e > p) => cls.result = Vote("entertainment", capped(e))
       /\ (d > e /\ d > p) => cls.result = Vote("educational", capped(d))
       /\ (p > e /\ p > d) => cls.result = Vote("productive", capped(p))
       /\ ~(e > d /\ e > p) /\ ~(d > e /\ d > p) /\ ~(p > e /\ p > d) =>
            cls.result = Vote("neutral", 50)
       /\ cls.result.confidence >= 50
       /\ cls.result.confidence <= 90

\* five educational matches against four entertainment ones: educational, with
\* the confidence capped at 0.9
C22_Witness ==
  /\ cls.entry = "classify_with_patterns"
  /\ cls_in.counts = [e |-> 4, d |-> 5, p |-> 0]
  /\ cls.result = Vote("educational", 90)

====
